---- MODULE Spec2Model ----
(***************************************************************************)
(* Grid-BasedNumbering.pushbutton/script.py as a state machine.            *)
(*                                                                         *)
(* The script is linear: STEP 1 .. STEP 9, each modelled by one action,    *)
(* the loop of STEP 9 by one action per iteration.  GridHelper's static    *)
(* methods are operators.  What the host application answers (the picked   *)
(* element, the option form, element categories and locations, the grids,  *)
(* the result of LookupParameter, whether a shared parameter file is set,  *)
(* whether a binding insert succeeds, and in host.start the shared         *)
(* parameter file and the document as the script finds them) is the record *)
(* `host`, chosen in the initial state and never changed by the script.    *)
(*                                                                         *)
(* Four specifications:                                                     *)
(*   Spec       the script as written.  Lines 161-162 call                 *)
(*              GridHelper.EnsureParameterExists, which the class does not *)
(*              define (line 48 defines ensure_parameter_exists), so the   *)
(*              run ends at line 161 with AttributeError.                  *)
(*   SpecCalls  the script with those two calls reaching the method of     *)
(*              line 48, from STEP 1 to the end.                           *)
(*   SpecPass   STEP 6 - STEP 9 (lines 164-225) from any state at line 164.*)
(*   SpecEnsure ensure_parameter_exists alone, called on any shared        *)
(*              parameter file and any bindings.                           *)
(*                                                                         *)
(* Text is a sequence of one-character strings, so that the first          *)
(* character of a grid name, "{}-{}".format(..) and str(counter) are       *)
(* computed, not assumed.  A point is <<x, y, z>>.                         *)
(***************************************************************************)
EXTENDS Integers, Sequences, FiniteSets, TLC

\* ---------------------------------------------------------------- bounds
\* Elements of the document are 1 .. NumElems.
NumElems == 3
\* At most MaxGrids grid elements in the document.
MaxGrids == 3
\* ensure_parameter_exists is called at most MaxCalls times in SpecEnsure.
MaxCalls == 2

Elems == 1 .. NumElems
\* doc.GetElement(firstRef) returned None
NoElem == 0
\* GetElementLocation returned None
NoLoc == << >>
\* elem.Category is None
NoCat == "none"
Cats == {"c1", "c2"}
\* the value of a parameter the script has not set
Unset == <<"unset">>

\* ------------------------------------------------------------- text
Letters == {"A", "B", "a"}
DigitChars == <<"0", "1", "2", "3", "4", "5", "6", "7", "8", "9">>
Digits == {DigitChars[i] : i \in 1 .. 10}

Range(s) == {s[i] : i \in 1 .. Len(s)}

\* str(counter) of a counter >= 1 : its decimal digits
RECURSIVE Str(_)
Str(n) ==
    IF n < 10 THEN <<DigitChars[n + 1]>>
    ELSE Str(n \div 10) \o <<DigitChars[(n % 10) + 1]>>

\* str.lower() on the parameter names that occur
Lower(name) ==
    CASE name = "Grid Square" -> "grid square"
      [] name = "Number" -> "number"
      [] OTHER -> name

IsAlphabetic(input_str) ==
    IF input_str = << >> THEN FALSE ELSE input_str[1] \in Letters

IsNumeric(input_str) ==
    IF input_str = << >> THEN FALSE ELSE input_str[1] \in Digits

\* ------------------------------------------------------------- state
VARIABLES
    host,             \* what the host application answers (see Init)
    spf,              \* shared parameter file: [group, defs]
    doc,              \* the document as the script sees it: [bindings, gs, num]
    saved,            \* the document as last committed
    txn,              \* name of the open transaction, "" when none
    pc,               \* position of the script
    exitMsg,          \* argument of sys.exit / name of the uncaught exception
    dialogs,          \* the TaskDialog.Show messages, in order
    firstElem, opts, firstCat, selectedElements, catSet,
    letterGrids, numberGrids, startPt, sortedElements,
    idx,              \* position of the STEP 9 loop in sortedElements
    counter,
    seqNo,            \* history: the counter value used for each element (0: none)
    label,            \* history: gridSquare computed for each element
    calls             \* history: the ensure_parameter_exists calls, each with its
                      \* arguments and the file and bindings it found

locals == <<firstElem, opts, firstCat, selectedElements, catSet, letterGrids,
            numberGrids, startPt, sortedElements, idx, counter, seqNo, label>>
store == <<spf, doc, saved, txn>>
vars == <<host, store, pc, exitMsg, dialogs, locals, calls>>

\* ------------------------------------------------------------- GridHelper
\* e.Location of the host is [kind, p]: a LocationPoint with Point p, a
\* LocationCurve whose Curve.Evaluate(0.5, True) is p, or neither.
GetElementLocation(e) ==
    IF e = NoElem THEN NoLoc
    ELSE IF host.elemLoc[e].kind = "point" THEN host.elemLoc[e].p
    ELSE IF host.elemLoc[e].kind = "curve" THEN host.elemLoc[e].p
    ELSE NoLoc

\* ------------------------------------------------------------- sorting
\* variant of InsertStable: an item goes before the items of equal key
InsertFront(s, x, k) ==
    LET n == Cardinality({i \in 1 .. Len(s) : k[s[i]] < k[x]})
    IN  SubSeq(s, 1, n) \o <<x>> \o SubSeq(s, n + 1, Len(s))

\* sorted(seq, key=k): ascending and stable.  k is a function on the items.
\* The items are inserted one by one, each after the items of equal key.
InsertStable(s, x, k) ==
    LET n == Cardinality({i \in 1 .. Len(s) : k[s[i]] <= k[x]})
    IN  SubSeq(s, 1, n) \o <<x>> \o SubSeq(s, n + 1, Len(s))

RECURSIVE Sorted(_, _)
Sorted(s, k) ==
    IF s = << >> THEN << >>
    ELSE InsertStable(Sorted(SubSeq(s, 1, Len(s) - 1), k), s[Len(s)], k)

\* XYZ.DistanceTo is the Euclidean distance; its square orders points the
\* same way and stays in the integers.
Dist2(p, q) ==
    (p[1] - q[1]) * (p[1] - q[1]) + (p[2] - q[2]) * (p[2] - q[2])
        + (p[3] - q[3]) * (p[3] - q[3])

\* The locations an element can have.
LocPool ==
    { [kind |-> "point", p |-> <<-1, 1, 0>>],
      [kind |-> "curve", p |-> <<0, 0, 0>>],
      [kind |-> "point", p |-> <<1, 0, 2>>],
      [kind |-> "other", p |-> NoLoc] }
Points == {l.p : l \in {m \in LocPool : m.kind # "other"}}

\* float('inf'): above every distance
Inf == 1 + (CHOOSE d \in {Dist2(p, q) : p \in Points, q \in Points} :
                \A p \in Points, q \in Points : Dist2(p, q) <= d)

XKey(e) == IF GetElementLocation(e) # NoLoc THEN GetElementLocation(e)[1] ELSE 0
YKey(e) == IF GetElementLocation(e) # NoLoc THEN GetElementLocation(e)[2] ELSE 0
ProximityKey(e, origin) ==
    IF GetElementLocation(e) # NoLoc THEN Dist2(GetElementLocation(e), origin)
    ELSE Inf

\* variant of SortKey: the Y option is tested before the X option
SortKeyYFirst(o, origin) ==
    IF o.y THEN [e \in Elems |-> YKey(e)]
    ELSE IF o.x THEN [e \in Elems |-> XKey(e)]
    ELSE [e \in Elems |-> ProximityKey(e, origin)]

\* STEP 8, the if / elif chain of lines 180-188
SortKey(o, origin) ==
    IF o.x THEN [e \in Elems |-> XKey(e)]
    ELSE IF o.y THEN [e \in Elems |-> YKey(e)]
    ELSE IF o.p THEN [e \in Elems |-> ProximityKey(e, origin)]
    ELSE [e \in Elems |-> ProximityKey(e, origin)]

\* line 179
Others(first, selected) == SelectSeq(selected, LAMBDA e : e # first)

SortedOthers(first, selected, o, origin) ==
    Sorted(Others(first, selected), SortKey(o, origin))

\* variant of FinalOrder: the first element is sorted with the others
FinalOrderSortAll(first, selected, o, origin) ==
    Sorted(<<first>> \o Others(first, selected), SortKey(o, origin))

\* line 190
FinalOrder(first, selected, o, origin) ==
    <<first>> \o SortedOthers(first, selected, o, origin)

\* ------------------------------------------------------------- grids
\* A grid is [name, axis, off]: its curve is the line axis = off, and
\* g.Curve.Distance(pt) the distance of pt to that line.
GridDistance(g, pt) ==
    LET c == IF g.axis = "x" THEN pt[1] ELSE pt[2]
    IN  IF c >= g.off THEN c - g.off ELSE g.off - c

\* variant of Closest: the last of the grids at minimum distance
ClosestLast(gs, pt) ==
    LET s == Sorted(gs, [g \in Range(gs) |-> GridDistance(g, pt)])
        d == GridDistance(s[1], pt)
        n == Cardinality({i \in 1 .. Len(s) : GridDistance(s[i], pt) = d})
    IN  s[n]

\* sorted(grids, key=distance)[0], lines 205-209
Closest(gs, pt) == Sorted(gs, [g \in Range(gs) |-> GridDistance(g, pt)])[1]

\* lines 202-213
GridSquare(ls, ns, pt) ==
    IF ls # << >> /\ ns # << >>
    THEN Closest(ls, pt).name \o <<"-">> \o Closest(ns, pt).name
    ELSE << >>

\* ------------------------------------------------------------- parameters
ParamNames == {"Grid Square", "Number"}

NoFileMsg == "No shared parameter file is defined. Please set one in Revit Options."
BindMsg(param_name) ==
    IF param_name = "Grid Square" THEN "Could not bind parameter: Grid Square"
    ELSE "Could not bind parameter: Number"

\* doc.ParameterBindings.Insert / ReInsert (definition, binding)
WithBinding(b, definition, cats) ==
    [n \in DOMAIN b \cup {definition} |-> IF n = definition THEN cats ELSE b[n]]

\* variant of EnsureParameter: an existing binding is replaced by one for
\* cat_set instead of being extended
EnsureReplaceCategories(f, b, param_name, cat_set) ==
    IF ~host.defFile
    THEN [spf |-> f, bindings |-> b, msgs |-> <<NoFileMsg>>, committed |-> FALSE]
    ELSE
      LET found == {n \in f.defs : Lower(n) = Lower(param_name)}
          definition == IF found # {} THEN CHOOSE n \in found : TRUE
                        ELSE param_name
          bound == {n \in DOMAIN b : Lower(n) = Lower(param_name)}
          success == host.insertOk[param_name]
      IN  [spf |-> [group |-> TRUE, defs |-> f.defs \cup {definition}],
           bindings |->
               IF bound # {} \/ success THEN WithBinding(b, definition, cat_set)
               ELSE b,
           msgs |-> IF bound = {} /\ ~success THEN <<BindMsg(param_name)>>
                    ELSE << >>,
           committed |-> TRUE]

\* ensure_parameter_exists, lines 48-108: the shared parameter file, the
\* bindings and the dialogs after the call on file f and bindings b.
\* committed: the transaction ended with t.Commit() (line 108), not with
\* t.RollBack() (line 58).  Insert (line 103) succeeds as the host decides
\* for the definition, host.insertOk.
EnsureParameter(f, b, param_name, cat_set) ==
    IF ~host.defFile
    THEN \* lines 56-59
         [spf |-> f, bindings |-> b, msgs |-> <<NoFileMsg>>, committed |-> FALSE]
    ELSE
      LET \* lines 62-75
          found == {n \in f.defs : Lower(n) = Lower(param_name)}
          definition == IF found # {} THEN CHOOSE n \in found : TRUE
                        ELSE param_name
          \* lines 78-86
          bound == {n \in DOMAIN b : Lower(n) = Lower(param_name)}
          existing == CHOOSE n \in bound : TRUE
          \* lines 93-96
          updated == \E cat \in cat_set : cat \notin b[existing]
          \* line 103
          success == host.insertOk[param_name]
      IN  [spf |-> [group |-> TRUE, defs |-> f.defs \cup {definition}],
           bindings |->
               IF bound # {}
               THEN IF updated
                    THEN WithBinding(b, definition, b[existing] \cup cat_set)
                    ELSE b
               ELSE IF success THEN WithBinding(b, definition, cat_set)
               ELSE b,
           msgs |-> IF bound = {} /\ ~success THEN <<BindMsg(param_name)>>
                    ELSE << >>,
           committed |-> TRUE]

\* The call as a step: the transaction of lines 49-50 is started and is
\* ended by line 58 or line 108 before the method returns.
Ensure(param_name, cat_set) ==
    LET r == EnsureParameter(spf, doc.bindings, param_name, cat_set)
    IN  /\ spf' = r.spf
        /\ doc' = [doc EXCEPT !.bindings = r.bindings]
        /\ saved' = IF r.committed THEN [doc EXCEPT !.bindings = r.bindings]
                    ELSE saved
        /\ txn' = ""
        /\ dialogs' = dialogs \o r.msgs
        /\ calls' = Append(calls, [name |-> param_name, cats |-> cat_set,
                                   spf |-> spf, bindings |-> saved.bindings])

\* ------------------------------------------------------------- the script
Exit(msg) == pc' = "exit" /\ exitMsg' = msg

\* STEP 1, lines 119-128
Step1 ==
    /\ pc = "step1"
    /\ IF host.pickRaises
       THEN Exit("Operation cancelled.") /\ UNCHANGED <<firstElem, dialogs>>
       ELSE /\ firstElem' = host.pickElem
            /\ IF host.pickElem = NoElem
               THEN /\ dialogs' = Append(dialogs, "Could not retrieve the selected element.")
                    /\ Exit("Failed to get element.")
               ELSE pc' = "step2" /\ UNCHANGED <<exitMsg, dialogs>>
    /\ UNCHANGED <<host, store, calls, opts, firstCat, selectedElements, catSet,
                   letterGrids, numberGrids, startPt, sortedElements, idx,
                   counter, seqNo, label>>

\* STEP 2, lines 130-143
Step2 ==
    /\ pc = "step2"
    /\ IF ~host.form.ok
       THEN Exit("User cancelled the options.") /\ UNCHANGED opts
       ELSE /\ opts' = [x |-> host.form.x, y |-> host.form.y, p |-> host.form.p]
            /\ pc' = "step3"
            /\ UNCHANGED exitMsg
    /\ UNCHANGED <<host, store, calls, dialogs, firstElem, firstCat,
                   selectedElements, catSet, letterGrids, numberGrids, startPt,
                   sortedElements, idx, counter, seqNo, label>>

\* STEP 3, lines 145-149
Step3 ==
    /\ pc = "step3"
    /\ firstCat' = host.elemCat[firstElem]
    /\ IF host.elemCat[firstElem] = NoCat
       THEN /\ dialogs' = Append(dialogs, "The selected element does not belong to any category.")
            /\ Exit("Failed to get category.")
       ELSE pc' = "step4" /\ UNCHANGED <<exitMsg, dialogs>>
    /\ UNCHANGED <<host, store, calls, firstElem, opts, selectedElements, catSet,
                   letterGrids, numberGrids, startPt, sortedElements, idx,
                   counter, seqNo, label>>

\* STEP 4, lines 151-154: the family instances of the category that are not
\* nested in another one, in the collector's order
Collected(cat) ==
    SelectSeq(host.docOrder,
              LAMBDA e : host.elemCat[e] = cat /\ host.isInstance[e])

Step4 ==
    /\ pc = "step4"
    /\ selectedElements' = Collected(firstCat)
    /\ pc' = "step5"
    /\ UNCHANGED <<host, store, calls, exitMsg, dialogs, firstElem, opts,
                   firstCat, catSet, letterGrids, numberGrids, startPt,
                   sortedElements, idx, counter, seqNo, label>>

\* STEP 5 as written, lines 156-161: GridHelper defines ensure_parameter_exists
\* (line 48) and no EnsureParameterExists, so the attribute lookup of line
\* 161 raises AttributeError and the script ends there.
Step5 ==
    /\ pc = "step5"
    /\ catSet' = {firstCat}
    /\ Exit("AttributeError")
    /\ UNCHANGED <<host, store, calls, dialogs, firstElem, opts, firstCat,
                   selectedElements, letterGrids, numberGrids, startPt,
                   sortedElements, idx, counter, seqNo, label>>

\* STEP 5 with the two calls of lines 161-162 reaching the method of line 48
Step5GridSquare ==
    /\ pc = "step5"
    /\ catSet' = {firstCat}
    /\ Ensure("Grid Square", {firstCat})
    /\ pc' = "step5b"
    /\ UNCHANGED <<host, exitMsg, firstElem, opts, firstCat, selectedElements,
                   letterGrids, numberGrids, startPt, sortedElements, idx,
                   counter, seqNo, label>>

Step5Number ==
    /\ pc = "step5b"
    /\ Ensure("Number", catSet)
    /\ pc' = "step6"
    /\ UNCHANGED <<host, exitMsg, firstElem, opts, firstCat, selectedElements,
                   catSet, letterGrids, numberGrids, startPt, sortedElements,
                   idx, counter, seqNo, label>>

\* STEP 6, lines 164-169
LetterGrids(grids) == SelectSeq(grids, LAMBDA g : IsAlphabetic(g.name))
NumberGrids(grids) == SelectSeq(grids, LAMBDA g : IsNumeric(g.name))

Step6 ==
    /\ pc = "step6"
    /\ letterGrids' = LetterGrids(host.grids)
    /\ numberGrids' = NumberGrids(host.grids)
    /\ pc' = "step7"
    /\ UNCHANGED <<host, store, calls, exitMsg, dialogs, firstElem, opts,
                   firstCat, selectedElements, catSet, startPt, sortedElements,
                   idx, counter, seqNo, label>>

\* STEP 7, lines 171-175
Step7 ==
    /\ pc = "step7"
    /\ startPt' = GetElementLocation(firstElem)
    /\ IF GetElementLocation(firstElem) = NoLoc
       THEN /\ dialogs' = Append(dialogs, "Could not determine the location of the first instance.")
            /\ Exit("Failed to get location.")
       ELSE pc' = "step8" /\ UNCHANGED <<exitMsg, dialogs>>
    /\ UNCHANGED <<host, store, calls, firstElem, opts, firstCat,
                   selectedElements, catSet, letterGrids, numberGrids,
                   sortedElements, idx, counter, seqNo, label>>

\* STEP 8, lines 177-190
Step8 ==
    /\ pc = "step8"
    /\ sortedElements' = FinalOrder(firstElem, selectedElements, opts, startPt)
    /\ pc' = "step9"
    /\ UNCHANGED <<host, store, calls, exitMsg, dialogs, firstElem, opts,
                   firstCat, selectedElements, catSet, letterGrids, numberGrids,
                   startPt, idx, counter, seqNo, label>>

\* STEP 9, lines 193-195
Step9Start ==
    /\ pc = "step9"
    /\ txn' = "Assign Grid Square and Number"
    /\ counter' = 1
    /\ idx' = 1
    /\ pc' = "loop"
    /\ UNCHANGED <<host, spf, doc, saved, calls, exitMsg, dialogs, firstElem,
                   opts, firstCat, selectedElements, catSet, letterGrids,
                   numberGrids, startPt, sortedElements, seqNo, label>>

\* elem.LookupParameter(name): "none" (None), "ro" (IsReadOnly) or "rw"
LookupParameter(e, name) == host.lookup[e][name]

\* variant of CounterAfter: a skipped element uses a counter value
CounterAfterCountingSkipped(c, elem, elemPt) == c + 1
\* variant of CounterAfter: the counter advances only when Number was set
CounterAfterIfWritten(c, elem, elemPt) ==
    IF elemPt = NoLoc \/ LookupParameter(elem, "Number") # "rw" THEN c ELSE c + 1

\* the counter after the iteration of elem, lines 198-199 and 222
CounterAfter(c, elem, elemPt) == IF elemPt = NoLoc THEN c ELSE c + 1

\* variant of CommittedInLoop: every iteration is committed on its own
CommittedEachIteration(s, d) == d

\* the committed document while the transaction of lines 193-194 is open
\* and the script has changed the document to d: nothing is committed
\* before line 223
CommittedInLoop(s, d) == s

\* the document after the two writes of an iteration, lines 215-221
WriteParams(d, elem, gridSquare, c) ==
    [d EXCEPT !.gs[elem] = IF LookupParameter(elem, "Grid Square") = "rw"
                           THEN gridSquare ELSE @,
              !.num[elem] = IF LookupParameter(elem, "Number") = "rw"
                            THEN Str(c) ELSE @]

\* one iteration of the loop of lines 196-222
LoopBody ==
    /\ pc = "loop"
    /\ idx <= Len(sortedElements)
    /\ LET elem == sortedElements[idx]
           elemPt == GetElementLocation(elem)
           gridSquare == GridSquare(letterGrids, numberGrids, elemPt)
       IN  /\ IF elemPt = NoLoc
              THEN UNCHANGED <<doc, seqNo, label>>
              ELSE /\ doc' = WriteParams(doc, elem, gridSquare, counter)
                   /\ seqNo' = [seqNo EXCEPT ![elem] = counter]
                   /\ label' = [label EXCEPT ![elem] = gridSquare]
           /\ counter' = CounterAfter(counter, elem, elemPt)
    /\ saved' = CommittedInLoop(saved, doc')
    /\ idx' = idx + 1
    /\ UNCHANGED <<host, spf, txn, calls, pc, exitMsg, dialogs, firstElem,
                   opts, firstCat, selectedElements, catSet, letterGrids,
                   numberGrids, startPt, sortedElements>>

\* lines 223-225
Step9Commit ==
    /\ pc = "loop"
    /\ idx > Len(sortedElements)
    /\ saved' = doc
    /\ txn' = ""
    /\ dialogs' = Append(dialogs, "Elements numbered successfully.")
    /\ pc' = "done"
    /\ UNCHANGED <<host, spf, doc, calls, exitMsg, firstElem, opts, firstCat,
                   selectedElements, catSet, letterGrids, numberGrids, startPt,
                   sortedElements, idx, counter, seqNo, label>>

\* ensure_parameter_exists called on its own, any name, any category set
EnsureCall ==
    /\ pc = "ensure"
    /\ Len(calls) < MaxCalls
    /\ \E param_name \in ParamNames, cat_set \in (SUBSET Cats) \ {{}} :
           Ensure(param_name, cat_set)
    /\ UNCHANGED <<host, pc, exitMsg, locals>>

\* ------------------------------------------------------------- initial states
DistinctSeqs(S, maxLen) ==
    {s \in UNION {[1 .. n -> S] : n \in 0 .. maxLen} :
        \A i, j \in 1 .. Len(s) : i # j => s[i] # s[j]}

\* the elements in ascending order of their ids
RECURSIVE Ascending(_)
Ascending(n) == IF n = 0 THEN << >> ELSE Append(Ascending(n - 1), n)

GridPool ==
    { [name |-> <<"A">>, axis |-> "x", off |-> -1],
      [name |-> <<"B", "1">>, axis |-> "x", off |-> 1],
      [name |-> <<"1">>, axis |-> "y", off |-> 0],
      [name |-> <<"2", "A">>, axis |-> "y", off |-> 2],
      [name |-> <<"_">>, axis |-> "x", off |-> 0],
      [name |-> << >>, axis |-> "y", off |-> 0] }

DefaultGrids ==
    << [name |-> <<"A">>, axis |-> "x", off |-> -1],
       [name |-> <<"1">>, axis |-> "y", off |-> 0] >>

PointLoc == [kind |-> "point", p |-> <<-1, 1, 0>>]
OtherLoc == [kind |-> "other", p |-> NoLoc]

\* what LookupParameter answers for one element
LookupPool ==
    { [n \in ParamNames |-> "rw"],
      [n \in ParamNames |-> "none"],
      [n \in ParamNames |-> IF n = "Number" THEN "ro" ELSE "rw"],
      [n \in ParamNames |-> IF n = "Number" THEN "none" ELSE "ro"],
      [n \in ParamNames |-> IF n = "Number" THEN "rw" ELSE "none"] }

AllWritable == [e \in Elems |-> [n \in ParamNames |-> "rw"]]
NothingFound == [e \in Elems |-> [n \in ParamNames |-> "none"]]

DefaultOpts == [x |-> FALSE, y |-> FALSE, p |-> TRUE]
DefaultForm == [ok |-> TRUE, x |-> FALSE, y |-> FALSE, p |-> TRUE]
CancelledForm == [ok |-> FALSE, x |-> FALSE, y |-> FALSE, p |-> FALSE]

NoBindings == [n \in {} |-> {}]
BothBound(cats) == [n \in ParamNames |-> cats]
EmptyFile == [group |-> FALSE, defs |-> {}]
FullFile == [group |-> TRUE, defs |-> ParamNames]

NewDoc(b) ==
    [bindings |-> b, gs |-> [e \in Elems |-> Unset], num |-> [e \in Elems |-> Unset]]

DefaultHost ==
    [pickRaises |-> FALSE, pickElem |-> 1, form |-> DefaultForm,
     elemCat |-> [e \in Elems |-> "c1"], isInstance |-> [e \in Elems |-> TRUE],
     docOrder |-> Ascending(NumElems), elemLoc |-> [e \in Elems |-> PointLoc],
     grids |-> DefaultGrids, lookup |-> AllWritable, defFile |-> TRUE,
     insertOk |-> [n \in ParamNames |-> TRUE],
     start |-> [spf |-> FullFile, doc |-> NewDoc(BothBound({"c1"}))]]

\* the locals before the script has assigned them
FreshLocals ==
    /\ firstElem = NoElem /\ opts = DefaultOpts /\ firstCat = NoCat
    /\ selectedElements = << >> /\ catSet = {}
    /\ letterGrids = << >> /\ numberGrids = << >> /\ startPt = NoLoc
    /\ sortedElements = << >> /\ idx = 0 /\ counter = 0
    /\ seqNo = [e \in Elems |-> 0] /\ label = [e \in Elems |-> Unset]

\* The script is started: line 115.
InitRun ==
    /\ \E prior \in { [f |-> EmptyFile, b |-> NoBindings],
                      [f |-> FullFile, b |-> BothBound({"c1"})],
                      [f |-> FullFile, b |-> BothBound({"c2"})] },
          pick \in {-1, NoElem} \cup Elems,
          form \in {CancelledForm, DefaultForm},
          cat1 \in {NoCat, "c1", "c2"}, cat2 \in {NoCat, "c1", "c2"},
          inst1 \in BOOLEAN,
          loc1 \in {PointLoc, OtherLoc}, loc2 \in {PointLoc, OtherLoc},
          lookup \in {AllWritable, NothingFound},
          defFile \in BOOLEAN, insertOk \in [ParamNames -> BOOLEAN] :
        host = [DefaultHost EXCEPT
                  !.pickRaises = (pick = -1),
                  !.pickElem = IF pick = -1 THEN NoElem ELSE pick,
                  !.form = form,
                  !.elemCat = [e \in Elems |-> IF e = 1 THEN cat1
                                               ELSE IF e = 2 THEN cat2 ELSE "c1"],
                  !.isInstance = [e \in Elems |-> IF e = 1 THEN inst1 ELSE TRUE],
                  !.elemLoc = [e \in Elems |-> IF e = 1 THEN loc1
                                               ELSE IF e = 2 THEN loc2 ELSE PointLoc],
                  !.lookup = lookup,
                  !.defFile = defFile,
                  !.insertOk = insertOk,
                  !.start = [spf |-> prior.f, doc |-> NewDoc(prior.b)]]
    /\ spf = host.start.spf
    /\ doc = host.start.doc
    /\ saved = doc
    /\ txn = ""
    /\ pc = "step1"
    /\ exitMsg = ""
    /\ dialogs = << >>
    /\ calls = << >>
    /\ FreshLocals

\* The state at line 164, after STEP 1 - STEP 5: an element was picked, it
\* has a category, the candidates were collected and both parameters are
\* bound to the category.
AtStep6(h, o, selected) ==
    /\ host = h
    /\ spf = FullFile
    /\ doc = NewDoc(BothBound({"c1"}))
    /\ saved = doc
    /\ txn = ""
    /\ pc = "step6"
    /\ exitMsg = ""
    /\ dialogs = << >>
    /\ calls = << [name |-> "Grid Square", cats |-> {"c1"}, spf |-> FullFile,
                   bindings |-> BothBound({"c1"})],
                  [name |-> "Number", cats |-> {"c1"}, spf |-> FullFile,
                   bindings |-> BothBound({"c1"})] >>
    /\ firstElem = 1 /\ opts = o /\ firstCat = "c1"
    /\ selectedElements = selected /\ catSet = {"c1"}
    /\ letterGrids = << >> /\ numberGrids = << >> /\ startPt = NoLoc
    /\ sortedElements = << >> /\ idx = 0 /\ counter = 0
    /\ seqNo = [e \in Elems |-> 0] /\ label = [e \in Elems |-> Unset]

\* any candidates in any order, any locations, any options
InitOrder ==
    \E elemLoc \in [Elems -> LocPool], selected \in DistinctSeqs(Elems, NumElems),
       o \in [x : BOOLEAN, y : BOOLEAN, p : BOOLEAN] :
        AtStep6([DefaultHost EXCEPT !.elemLoc = elemLoc], o, selected)

\* any answers of LookupParameter
InitWrite ==
    \E elemLoc \in [Elems -> {PointLoc, OtherLoc}], lookup \in [Elems -> LookupPool] :
        AtStep6([DefaultHost EXCEPT !.elemLoc = elemLoc, !.lookup = lookup],
                DefaultOpts, Ascending(NumElems))

\* any grids in any order
InitGrids ==
    \E elemLoc \in [Elems -> LocPool], grids \in DistinctSeqs(GridPool, MaxGrids) :
        AtStep6([DefaultHost EXCEPT !.elemLoc = elemLoc, !.grids = grids],
                DefaultOpts, Ascending(NumElems))

InitPass == InitOrder \/ InitWrite \/ InitGrids

\* ensure_parameter_exists on any shared parameter file and any bindings.
\* The file holds at most one definition per lower-cased name, and a bound
\* definition is the file's definition of that name when the file has one.
FileDefs ==
    {d \in SUBSET {"Grid Square", "Number", "number"} :
        ~({"Number", "number"} \subseteq d)}
BoundNames(defs) ==
    {k \in SUBSET {"Grid Square", "Number", "number"} :
        /\ ~({"Number", "number"} \subseteq k)
        /\ "number" \in k => "number" \in defs
        /\ "Number" \in k => "number" \notin defs}

InitEnsure ==
    /\ \E defFile \in BOOLEAN, insertOk \in [ParamNames -> BOOLEAN],
          defs \in FileDefs, group \in BOOLEAN :
        /\ defs # {} => group
        /\ \E k \in BoundNames(defs) :
             \E b \in [k -> (SUBSET Cats) \ {{}}] :
               host = [DefaultHost EXCEPT
                         !.defFile = defFile, !.insertOk = insertOk,
                         !.start = [spf |-> [group |-> group, defs |-> defs],
                                    doc |-> NewDoc(b)]]
    /\ spf = host.start.spf
    /\ doc = host.start.doc
    /\ saved = doc
    /\ txn = ""
    /\ pc = "ensure"
    /\ exitMsg = ""
    /\ dialogs = << >>
    /\ calls = << >>
    /\ FreshLocals

\* ------------------------------------------------------------- specifications
NextPass == Step6 \/ Step7 \/ Step8 \/ Step9Start \/ LoopBody \/ Step9Commit

\* the script as written
Next == Step1 \/ Step2 \/ Step3 \/ Step4 \/ Step5
Spec == InitRun /\ [][Next]_vars

\* the script with the calls of lines 161-162 reaching ensure_parameter_exists
NextCalls ==
    Step1 \/ Step2 \/ Step3 \/ Step4 \/ Step5GridSquare \/ Step5Number \/ NextPass
SpecCalls == InitRun /\ [][NextCalls]_vars

\* lines 164-225 from the state at line 164
SpecPass == InitPass /\ [][NextPass]_vars

\* ensure_parameter_exists alone
SpecEnsure == InitEnsure /\ [][EnsureCall]_vars

\* ------------------------------------------------------------- properties
Located(e) == host.elemLoc[e].kind \in {"point", "curve"}
At(e) == host.elemLoc[e].p
\* sortedElements has been computed
Ordered == pc \in {"step9", "loop", "done"}
Numbering == pc \in {"loop", "done"}
Terminal == pc \in {"done", "exit"}
\* the located elements among the first i - 1 of the final order
LocatedBefore(i) ==
    Cardinality({j \in 1 .. Len(sortedElements) :
                    j < i /\ Located(sortedElements[j])})
Rest == Tail(sortedElements)
\* position in the collected candidates
Pos(e) == CHOOSE i \in 1 .. Len(selectedElements) : selectedElements[i] = e

\* C1: in every run that reaches the numbering pass the start element is
\* the first element of the final order, it is the element given sequence
\* number 1, and no other element is given 1.
C1_StartFirstAndOne ==
    /\ Ordered => Len(sortedElements) >= 1 /\ sortedElements[1] = firstElem
    /\ \A e \in Elems : seqNo[e] = 1 => e = firstElem
    /\ ((pc = "loop" /\ idx > 1) \/ pc = "done") => seqNo[firstElem] = 1

\* the start element is not among the candidates, the order is by X, and a
\* candidate with a smaller X than the start element is numbered 2
C1_Witness ==
    /\ pc = "done"
    /\ opts.x
    /\ firstElem \notin Range(selectedElements)
    /\ Len(sortedElements) = 3
    /\ seqNo[firstElem] = 1
    /\ \E e \in Range(selectedElements) :
          Located(e) /\ At(e)[1] < At(firstElem)[1] /\ seqNo[e] = 2

\* C2: the sequence numbers of the elements with a location are 1 .. k along
\* the final order, without gap or repeat; an element without a location
\* gets no label and no number and uses no counter value.
C2_ContiguousNumbers ==
    Numbering =>
      /\ counter = 1 + LocatedBefore(idx)
      /\ \A i \in 1 .. Len(sortedElements) :
           i < idx =>
             LET e == sortedElements[i]
             IN  IF Located(e) THEN seqNo[e] = 1 + LocatedBefore(i)
                 ELSE /\ seqNo[e] = 0 /\ label[e] = Unset
                      /\ doc.gs[e] = Unset /\ doc.num[e] = Unset
      /\ pc = "done" =>
           {seqNo[sortedElements[i]] :
               i \in {j \in 1 .. Len(sortedElements) : Located(sortedElements[j])}}
             = 1 .. (counter - 1)

\* an element without a location stands between two located ones, which
\* get consecutive numbers
C2_Witness ==
    /\ pc = "done"
    /\ \E i, j, k \in 1 .. Len(sortedElements) :
          /\ i < j /\ j < k
          /\ Located(sortedElements[i]) /\ ~Located(sortedElements[j])
          /\ Located(sortedElements[k])
          /\ seqNo[sortedElements[k]] = seqNo[sortedElements[i]] + 1

AllApplied ==
    /\ pc = "done"
    /\ \A n \in ParamNames :
          \E k \in DOMAIN saved.bindings :
             Lower(k) = Lower(n) /\ firstCat \in saved.bindings[k]
    /\ saved.gs = doc.gs /\ saved.num = doc.num
\* the committed document is the one the script found
NoneApplied == saved = host.start.doc

LetterAt == {i \in 1 .. Len(host.grids) : IsAlphabetic(host.grids[i].name)}
NumberAt == {i \in 1 .. Len(host.grids) : IsNumeric(host.grids[i].name)}
\* grid i is, among the grids at `among`, the first at minimum distance of pt
IsFirstNearest(i, among, pt) ==
    /\ i \in among
    /\ \A k \in among :
          /\ GridDistance(host.grids[k], pt) >= GridDistance(host.grids[i], pt)
          /\ k < i => GridDistance(host.grids[k], pt) > GridDistance(host.grids[i], pt)

C5_GridSquareLabel ==
    Numbering =>
      /\ \A e \in Elems :
           label[e] # Unset =>
             IF LetterAt # {} /\ NumberAt # {}
             THEN \E i, j \in 1 .. Len(host.grids) :
                    /\ IsFirstNearest(i, LetterAt, At(e))
                    /\ IsFirstNearest(j, NumberAt, At(e))
                    /\ label[e] = host.grids[i].name \o <<"-">> \o host.grids[j].name
             ELSE label[e] = << >>
      /\ \A i \in 1 .. Len(sortedElements) :
           (i < idx /\ Located(sortedElements[i])) =>
             /\ label[sortedElements[i]] # Unset
             /\ seqNo[sortedElements[i]] > 0
             /\ doc.gs[sortedElements[i]] =
                  IF host.lookup[sortedElements[i]]["Grid Square"] = "rw"
                  THEN label[sortedElements[i]] ELSE Unset

\* two letter grids are at the same, minimum distance of an element and
\* its label names the first of them
C5_Witness ==
    /\ pc = "done"
    /\ \E e \in Elems, i, k, j \in 1 .. Len(host.grids) :
          /\ label[e] # Unset
          /\ i < k
          /\ k \in LetterAt
          /\ GridDistance(host.grids[i], At(e)) = GridDistance(host.grids[k], At(e))
          /\ IsFirstNearest(i, LetterAt, At(e))
          /\ IsFirstNearest(j, NumberAt, At(e))
          /\ label[e] = host.grids[i].name \o <<"-">> \o host.grids[j].name
          /\ label[e] # host.grids[k].name \o <<"-">> \o host.grids[j].name

\* C6: the final order is the start element, then the other candidates
\* ascending by the key: X (Y) with 0 for an element without a location;
\* else the distance to the start element, elements without a location
\* after all the others; equal keys keep the input order.
ByX == opts.x
ByY == ~opts.x /\ opts.y
CoordKey(e, c) == IF Located(e) THEN At(e)[c] ELSE 0
\* a may stand before b
NotAfter(a, b) ==
    IF ByX THEN CoordKey(a, 1) <= CoordKey(b, 1)
    ELSE IF ByY THEN CoordKey(a, 2) <= CoordKey(b, 2)
    ELSE /\ ~Located(a) => ~Located(b)
         /\ (Located(a) /\ Located(b)) =>
              Dist2(At(a), At(firstElem)) <= Dist2(At(b), At(firstElem))
SameKey(a, b) == NotAfter(a, b) /\ NotAfter(b, a)

C6_FinalOrder ==
    Ordered =>
      /\ sortedElements[1] = firstElem
      /\ Range(Rest) = Range(selectedElements) \ {firstElem}
      /\ Len(Rest) = Cardinality(Range(selectedElements) \ {firstElem})
      /\ \A i, j \in 1 .. Len(Rest) :
           i < j =>
             /\ NotAfter(Rest[i], Rest[j])
             /\ SameKey(Rest[i], Rest[j]) => Pos(Rest[i]) < Pos(Rest[j])

\* by X, an element without a location (key 0) that came after an element
\* at X = 1 in the input stands before it
C6_Witness ==
    /\ pc = "done"
    /\ ByX
    /\ Len(Rest) = 2
    /\ ~Located(Rest[1]) /\ Located(Rest[2]) /\ At(Rest[2])[1] = 1
    /\ Pos(Rest[1]) > Pos(Rest[2])

\* C7: ensure_parameter_exists on a parameter that is defined and bound to
\* the given categories changes neither the definitions nor the bindings;
\* a second call with the same arguments leaves what the first call left.
LastCall == calls[Len(calls)]
EnsuredBefore(c) ==
    /\ \E d \in c.spf.defs : Lower(d) = Lower(c.name)
    /\ \E k \in DOMAIN c.bindings :
          Lower(k) = Lower(c.name) /\ c.cats \subseteq c.bindings[k]
UnchangedBy(c) ==
    spf = c.spf /\ doc.bindings = c.bindings /\ saved.bindings = c.bindings

C7_EnsureIdempotent ==
    /\ (Len(calls) >= 1 /\ EnsuredBefore(LastCall)) => UnchangedBy(LastCall)
    /\ (/\ Len(calls) >= 2
        /\ LastCall.name = calls[Len(calls) - 1].name
        /\ LastCall.cats = calls[Len(calls) - 1].cats) => UnchangedBy(LastCall)

\* the first call created the definition and the binding, the second call
\* with the same arguments found both
C7_Witness ==
    /\ Len(calls) = 2
    /\ calls[2].name = calls[1].name /\ calls[2].cats = calls[1].cats
    /\ calls[2].spf # calls[1].spf /\ calls[2].bindings # calls[1].bindings
    /\ EnsuredBefore(calls[2])
    /\ UnchangedBy(calls[2])

\* C8: a failure of the schema setup (no shared parameter file, or a failed
\* insert of the binding) is shown in a dialog and does not end the run: the
\* run goes on to the numbering pass and to its commit, provided the start
\* element has a location.
SetupFails ==
    \/ ~host.defFile
    \/ \E n \in ParamNames :
          /\ ~host.insertOk[n]
          /\ ~\E k \in DOMAIN host.start.doc.bindings : Lower(k) = Lower(n)
C8_SetupFailureNotTerminal ==
    (Terminal /\ catSet # {} /\ SetupFails) =>
      /\ \/ NoFileMsg \in Range(dialogs)
         \/ \E n \in ParamNames : BindMsg(n) \in Range(dialogs)
      /\ pc = "done" \/ exitMsg = "Failed to get location."

\* C9: the key is X whenever 'Number on X Axis' is checked, else Y whenever
\* 'Number on Y Axis' is checked, else proximity to the start element, also
\* when nothing is checked.
C9_KeyPrecedence ==
    Ordered =>
      Rest = Sorted(Others(firstElem, selectedElements),
                    IF opts.x THEN [e \in Elems |-> XKey(e)]
                    ELSE IF opts.y THEN [e \in Elems |-> YKey(e)]
                    ELSE [e \in Elems |->
                            ProximityKey(e, GetElementLocation(firstElem))])

\* all three options are checked, the order by X differs from the order by
\* Y, and the final order is the one by X
C9_Witness ==
    /\ pc = "done"
    /\ opts.x /\ opts.y /\ opts.p
    /\ Sorted(Others(firstElem, selectedElements), [e \in Elems |-> XKey(e)])
         # Sorted(Others(firstElem, selectedElements), [e \in Elems |-> YKey(e)])
    /\ Rest = Sorted(Others(firstElem, selectedElements), [e \in Elems |-> XKey(e)])

\* C10: the counter advances by one for every located element, written or
\* not: a writable Number is set to 1 + the number of located elements
\* before the element, a Number that is missing or read-only is left as it
\* was.
C10_WrittenNumbers ==
    Numbering =>
      /\ counter = 1 + LocatedBefore(idx)
      /\ \A i \in 1 .. Len(sortedElements) :
           (i < idx /\ Located(sortedElements[i])) =>
             doc.num[sortedElements[i]] =
               IF host.lookup[sortedElements[i]]["Number"] = "rw"
               THEN Str(1 + LocatedBefore(i)) ELSE Unset
      /\ pc = "done" => saved.num = doc.num

\* the stored numbers have a gap: "1" and "3" are stored, the located
\* element between them could not be written
C10_Witness ==
    /\ pc = "done"
    /\ Len(sortedElements) = 3
    /\ saved.num[sortedElements[1]] = <<"1">>
    /\ Located(sortedElements[2]) /\ saved.num[sortedElements[2]] = Unset
    /\ saved.num[sortedElements[3]] = <<"3">>

====
